---- MODULE Spec2Model ----
(***************************************************************************)
(* Multi-source retrieval pipeline of u_ok_luv.vec_db_refresh:             *)
(* download_papers.py.  The module holds several specifications over one   *)
(* set of variables:                                                       *)
(*   SpecRequest   one call of _request_json (retry/backoff loop)          *)
(*   SpecMedrxiv   one call of query_medrxiv_papers, page by page, every   *)
(*                 page request going through _request_json                *)
(*   SpecMedPage   the item loop of query_medrxiv_papers on one page, with *)
(*                 _process_medrxiv_item on the fields of the items        *)
(*   SpecMedRetry  one call of query_medrxiv_papers with the attempts of   *)
(*                 its page requests counted                               *)
(*   SpecEpmcItem  one call of _epmc_process_item (enrichment chain)       *)
(*   SpecEpmc      one call of query_europe_pmc_papers, page by page       *)
(*   SpecWrap      the chunking of one article text (textwrap.wrap) and    *)
(*                 the cell normalisation of save_collected_data           *)
(*   SpecDedupe    dedupe_rows on the lists of the three sources           *)
(*   SpecRun       the topic loop of download_papers (FairRun: with weak   *)
(*                 fairness)                                               *)
(* A specification leaves the variables of the other parts at their idle   *)
(* values.                                                                 *)
(***************************************************************************)
EXTENDS Integers, Sequences, FiniteSets, TLC

\* ---------------------------------------------------------------- bounds
MaxRetries == 3     \* largest value of the `retries` parameter explored
MaxPages == 3       \* page requests one fetch may issue in the model
MaxChunks == 1      \* most chunk rows one medRxiv item produces
MaxItems == 2       \* most items the server puts in one page
MaxResults == 3     \* largest value of the `max_results` parameter explored
MaxTopics == 2      \* topics in the loaded term set
MaxRows == 2        \* most rows one source returns when dedupe_rows is explored

\* -------------------------------------------------------- program constants
STATUS_OK == 200
RETRYABLE == {403, 429, 502, 503, 504}

\* Statuses the simulated server answers with: success, the retryable ones,
\* and two permanent failures.
Statuses == {STATUS_OK} \cup RETRYABLE \cup {404, 500}
\* In the page-level specification one retryable and one permanent status
\* stand for their classes (SpecRequest explores them all).
MedStatuses == {STATUS_OK, 503, 404}
\* backoff_seconds in tenths of a second: 0.5 s and the default 1.5 s.
BackoffChoices == {5, 15}
PageSizes == {1, 2}

VARIABLES
    \* ---- _request_json
    retries,          \* parameter: retry cap
    backoff_seconds,  \* parameter: base backoff (tenths of a second)
    attempt,          \* local `attempt`
    http_calls,       \* number of http.get calls of the current request
    sleeps,           \* durations passed to time.sleep by the current request
    responses,        \* what http.get gave the current request, in order
    req_result,       \* "idle" | "pending" | "json" | "none" | "raised"
    \* ---- parameters shared by the fetchers
    terms,            \* the topic's term list
    max_results,      \* result cap
    page_size,        \* page size
    wrap_width,       \* wrap width
    \* ---- query_medrxiv_papers
    cursor,           \* local `cursor`
    collected,        \* local `collected`
    requests,         \* cursors of the page requests issued so far
    pages,            \* the item lists received so far
    med_pc,           \* "idle" | "loop" | "request" | "returned" | "raised"
    med_failed,       \* the fetch ended on a failed page request
    returned,         \* the list handed to the caller
    \* ---- _epmc_process_item
    item,             \* the search result being processed, with what the
                      \* detail and full-text endpoints hold for it
    item_pc,          \* "idle" | "call" | "done"
    item_rows,        \* the rows returned
    item_calls,       \* the enrichment requests issued, in order
    \* ---- query_europe_pmc_papers
    epmc_cursor,      \* local `cursor`
    epmc_collected,   \* local `collected`
    epmc_requests,    \* cursorMark of the search requests issued so far
    epmc_pages,       \* the pages received so far: results and nextCursorMark
    epmc_pc,          \* "idle" | "start" | "loop" | "returned"
    epmc_failed,      \* the fetch ended on a failed search request
    epmc_returned,    \* the list handed to the caller
    \* ---- download_papers
    use_arxiv,        \* args.use_arxiv
    use_medrxiv,      \* args.use_medrxiv
    use_epmc,         \* args.use_epmc
    topic,            \* position of the loop in all_terms.items()
    run_pc,           \* "idle" | "topic" | "arxiv" | "medrxiv" | "epmc" | "save"
                      \* | "done" | "aborted"
    arxiv_data,       \* local `arxiv_data`
    medrxiv_data,     \* local `medrxiv_data`
    epmc_data,        \* local `epmc_data`
    combined,         \* local `combined`
    started,          \* topics whose processing has started
    queried,          \* <<topic, source>> for every fetch that was called
    empty_page,       \* topics ended by arxiv.UnexpectedEmptyPageError
    failed,           \* topics ended by another exception
    save_count,       \* save_collected_data calls per topic
    written,          \* rows of the last save_collected_data call of the topic
    \* ---- chunking of one article (textwrap.wrap and the CSV cell)
    doc_text,         \* the article's abstract or summary as the source gave it
    doc_pc,           \* "idle" | "call" | "done"
    doc_rows,         \* per fetcher, the chunk rows produced for the article
    doc_cells,        \* per fetcher, the text_chunk cells save_collected_data writes
    \* ---- the item loop of query_medrxiv_papers on one page
    page_items,       \* the items of data["collection"]
    page_pc,          \* "idle" | "call" | "done"
    page_rows,        \* per item, what _process_medrxiv_item returned
    page_collected,   \* `collected` after the item loop
    \* ---- retry bookkeeping over one medRxiv fetch
    attempts_used     \* failed attempts of the page requests completed so far

paramVars == <<terms, max_results, page_size, wrap_width>>
reqVars == <<retries, backoff_seconds, attempt, http_calls, sleeps, responses, req_result>>
medVars == <<cursor, collected, requests, pages, med_pc, med_failed, returned>>
itemVars == <<item, item_pc, item_rows, item_calls>>
epmcVars == <<epmc_cursor, epmc_collected, epmc_requests, epmc_pages, epmc_pc,
              epmc_failed, epmc_returned>>
runVars == <<use_arxiv, use_medrxiv, use_epmc, topic, run_pc, arxiv_data, medrxiv_data,
             epmc_data, combined, started, queried, empty_page, failed, save_count,
             written>>
docVars == <<doc_text, doc_pc, doc_rows, doc_cells>>
pageVars == <<page_items, page_pc, page_rows, page_collected>>
logVars == <<attempts_used>>
vars == <<paramVars, reqVars, medVars, itemVars, epmcVars, runVars, docVars, pageVars,
          logVars>>

\* --------------------------------------------------------------- text
\* A string is kept run-length encoded: a sequence of runs <<character, count>>
\* with count >= 1 and no two neighbouring runs of the same character, so that
\* equal strings have equal encodings.  <<>> is the empty string.
SP == " "
NL == "\n"
TAB == "\t"
IsSpaceChar(ch) == ch \in {SP, NL, TAB}

RECURSIVE TLen(_)
TLen(t) == IF t = <<>> THEN 0 ELSE Head(t)[2] + TLen(Tail(t))

\* s + t
TCat(s, t) ==
    IF s = <<>> THEN t
    ELSE IF t = <<>> THEN s
    ELSE IF s[Len(s)][1] = t[1][1]
         THEN SubSeq(s, 1, Len(s) - 1) \o <<<<t[1][1], s[Len(s)][2] + t[1][2]>>>> \o Tail(t)
         ELSE s \o t

\* t[:k]
RECURSIVE TTake(_, _)
TTake(t, k) ==
    IF t = <<>> \/ k <= 0 THEN <<>>
    ELSE IF Head(t)[2] <= k THEN <<Head(t)>> \o TTake(Tail(t), k - Head(t)[2])
    ELSE <<<<Head(t)[1], k>>>>

\* t[k:]
RECURSIVE TDrop(_, _)
TDrop(t, k) ==
    IF t = <<>> \/ k <= 0 THEN t
    ELSE IF Head(t)[2] <= k THEN TDrop(Tail(t), k - Head(t)[2])
    ELSE <<<<Head(t)[1], Head(t)[2] - k>>>> \o Tail(t)

\* t.strip()
RECURSIVE TLStrip(_)
TLStrip(t) ==
    IF t # <<>> /\ IsSpaceChar(Head(t)[1]) THEN TLStrip(Tail(t)) ELSE t
RECURSIVE TRStrip(_)
TRStrip(t) ==
    IF t # <<>> /\ IsSpaceChar(t[Len(t)][1]) THEN TRStrip(SubSeq(t, 1, Len(t) - 1)) ELSE t
TStrip(t) == TRStrip(TLStrip(t))

\* t.replace("\n", " "); textwrap's own whitespace munging does the same
RECURSIVE TReplaceNewlines(_)
TReplaceNewlines(t) ==
    IF t = <<>> THEN <<>>
    ELSE TCat(<<<<IF Head(t)[1] = NL THEN SP ELSE Head(t)[1], Head(t)[2]>>>>,
              TReplaceNewlines(Tail(t)))

\* t.expandtabs(): a tab becomes the spaces up to the next multiple of 8 of the
\* column, the column starting again after a newline; col is the column mod 8
RECURSIVE TExpandTabsFrom(_, _)
TExpandTabsFrom(t, col) ==
    IF t = <<>> THEN <<>>
    ELSE LET r == Head(t)
         IN IF r[1] = TAB
            THEN TCat(<<<<SP, (8 - col) + 8 * (r[2] - 1)>>>>, TExpandTabsFrom(Tail(t), 0))
            ELSE IF r[1] = NL
            THEN TCat(<<r>>, TExpandTabsFrom(Tail(t), 0))
            ELSE TCat(<<r>>, TExpandTabsFrom(Tail(t), (col + r[2]) % 8))
TExpandTabs(t) == TExpandTabsFrom(t, 0)

\* t.lower() on the letters of the model
LowerChar(ch) == IF ch = "A" THEN "a" ELSE IF ch = "B" THEN "b" ELSE ch
RECURSIVE TLower(_)
TLower(t) ==
    IF t = <<>> THEN <<>>
    ELSE TCat(<<<<LowerChar(Head(t)[1]), Head(t)[2]>>>>, TLower(Tail(t)))

\* sub in t
TContains(sub, t) ==
    \E k \in 0..(TLen(t) - TLen(sub)) : TTake(TDrop(t, k), TLen(sub)) = sub

\* every whitespace character of t turned into a space
RECURSIVE TSpaces(_)
TSpaces(t) ==
    IF t = <<>> THEN <<>>
    ELSE TCat(<<<<IF IsSpaceChar(Head(t)[1]) THEN SP ELSE Head(t)[1], Head(t)[2]>>>>,
              TSpaces(Tail(t)))

\* re.sub(r"\s+", " ", t)
TCollapse(t) ==
    LET u == TSpaces(t)
    IN [i \in 1..Len(u) |-> IF u[i][1] = SP THEN <<SP, 1>> ELSE u[i]]

\* t with every whitespace character removed
RECURSIVE TNoSpace(_)
TNoSpace(t) ==
    IF t = <<>> THEN <<>>
    ELSE IF IsSpaceChar(Head(t)[1]) THEN TNoSpace(Tail(t))
    ELSE TCat(<<Head(t)>>, TNoSpace(Tail(t)))

\* sep.join(parts)
RECURSIVE TJoin(_, _)
TJoin(parts, sep) ==
    IF parts = <<>> THEN <<>>
    ELSE IF Len(parts) = 1 THEN parts[1]
    ELSE TCat(TCat(parts[1], sep), TJoin(Tail(parts), sep))

\* ------------------------------------------------------- textwrap.wrap
\* TextWrapper._split: words (maximal runs of non-space characters) and runs of
\* spaces, in order
IsBlankChunk(c) == c = <<>> \/ c[1][1] = SP

RECURSIVE WrapSplit(_)
WrapSplit(t) ==
    IF t = <<>> THEN <<>>
    ELSE LET r == Head(t)
             rest == WrapSplit(Tail(t))
         IN IF r[1] # SP /\ rest # <<>> /\ ~IsBlankChunk(rest[1])
            THEN <<<<r>> \o rest[1]>> \o Tail(rest)
            ELSE <<<<r>>>> \o rest

\* TextWrapper._wrap_chunks, inner loop: chunks that fit the current line
RECURSIVE FillLine(_, _, _, _)
FillLine(chunks, line, len, width) ==
    IF chunks # <<>> /\ len + TLen(Head(chunks)) <= width
    THEN FillLine(Tail(chunks), Append(line, Head(chunks)), len + TLen(Head(chunks)), width)
    ELSE [line |-> line, len |-> len, rest |-> chunks]

\* A variant of the line builder that leaves the blanks between words out.
RECURSIVE ConcatChunks_WordsOnly(_)
ConcatChunks_WordsOnly(cs) ==
    IF cs = <<>> THEN <<>>
    ELSE IF IsBlankChunk(Head(cs)) THEN ConcatChunks_WordsOnly(Tail(cs))
    ELSE TCat(Head(cs), ConcatChunks_WordsOnly(Tail(cs)))

RECURSIVE ConcatChunks(_)
ConcatChunks(cs) == IF cs = <<>> THEN <<>> ELSE TCat(Head(cs), ConcatChunks(Tail(cs)))

\* TextWrapper._wrap_chunks (drop_whitespace, break_long_words: the defaults)
RECURSIVE WrapChunks(_, _, _)
WrapChunks(chunks, lines, width) ==
    IF chunks = <<>> THEN lines
    ELSE LET c0 == IF IsBlankChunk(Head(chunks)) /\ lines # <<>> THEN Tail(chunks) ELSE chunks
             f == FillLine(c0, <<>>, 0, width)
             long == f.rest # <<>> /\ TLen(Head(f.rest)) > width
             space_left == IF width < 1 THEN 1 ELSE width - f.len
             line1 == IF long THEN Append(f.line, TTake(Head(f.rest), space_left)) ELSE f.line
             rest1 == IF long THEN <<TDrop(Head(f.rest), space_left)>> \o Tail(f.rest)
                      ELSE f.rest
             line2 == IF line1 # <<>> /\ IsBlankChunk(line1[Len(line1)])
                      THEN SubSeq(line1, 1, Len(line1) - 1) ELSE line1
         IN WrapChunks(rest1,
                       IF line2 # <<>> THEN Append(lines, ConcatChunks(line2)) ELSE lines,
                       width)

\* TextWrapper._munge_whitespace (expand_tabs, replace_whitespace: the defaults)
MungeWhitespace(text) == TSpaces(TExpandTabs(text))

\* A variant of the wrapper that leaves the whitespace characters as they are.
wrap_KeepWhitespace(text, width) == WrapChunks(WrapSplit(text), <<>>, width)

\* textwrap.wrap(text, width=width)
wrap(text, width) == WrapChunks(WrapSplit(MungeWhitespace(text)), <<>>, width)

\* ------------------------------------------------------------ _request_json
\* What one http.get call gives: a status code and whether resp.json() decodes
\* the body; a call that raises gives no status (0).
Response(status, decodable) == [status |-> status, json |-> decodable]
TransportError == [status |-> 0, json |-> FALSE]

\* Variants of the retry test and of the backoff with a plausible slip each.
ShouldRetry_Strict(status, att, cap) == status \in RETRYABLE /\ att < cap
ShouldRetry_AnyStatus(status, att, cap) == att <= cap
SleepFor_Constant(backoff, att) == backoff

\* line 202: retry only a retryable status while attempt <= retries
ShouldRetry(status, att, cap) == status \in RETRYABLE /\ att <= cap

\* line 203: sleep_for = backoff_seconds * attempt
SleepFor(backoff, att) == backoff * att

\* A variant of the start of a call that goes on counting where the earlier
\* requests of the fetch stopped.
StartRequest_CarriedAttempt ==
    /\ attempt' = attempts_used
    /\ http_calls' = 0
    /\ sleeps' = <<>>
    /\ responses' = <<>>
    /\ req_result' = "pending"
    /\ UNCHANGED <<retries, backoff_seconds>>

\* line 191: a new call starts with attempt = 0
StartRequest ==
    /\ attempt' = 0
    /\ http_calls' = 0
    /\ sleeps' = <<>>
    /\ responses' = <<>>
    /\ req_result' = "pending"
    /\ UNCHANGED <<retries, backoff_seconds>>

\* line 194: http.get raises (connection error, timeout); nothing catches it
HttpRaises ==
    /\ req_result = "pending"
    /\ http_calls' = http_calls + 1
    /\ responses' = Append(responses, TransportError)
    /\ req_result' = "raised"
    /\ UNCHANGED <<retries, backoff_seconds, attempt, sleeps>>

\* lines 195-197: status 200 and resp.json() succeeds
HttpOkJson ==
    /\ req_result = "pending"
    /\ http_calls' = http_calls + 1
    /\ responses' = Append(responses, Response(STATUS_OK, TRUE))
    /\ req_result' = "json"
    /\ UNCHANGED <<retries, backoff_seconds, attempt, sleeps>>

\* lines 195-200: status 200 and resp.json() raises
HttpOkUndecodable ==
    /\ req_result = "pending"
    /\ http_calls' = http_calls + 1
    /\ responses' = Append(responses, Response(STATUS_OK, FALSE))
    /\ req_result' = "none"
    /\ UNCHANGED <<retries, backoff_seconds, attempt, sleeps>>

\* lines 201-206: a non-200 status that is retried after a sleep
HttpRetry(S) ==
    /\ req_result = "pending"
    /\ \E status \in S \ {STATUS_OK} :
        /\ ShouldRetry(status, attempt + 1, retries)
        /\ http_calls' = http_calls + 1
        /\ responses' = Append(responses, Response(status, FALSE))
        /\ attempt' = attempt + 1
        /\ sleeps' = Append(sleeps, SleepFor(backoff_seconds, attempt + 1))
    /\ UNCHANGED <<retries, backoff_seconds, req_result>>

\* lines 201-208: a non-200 status that ends the call with None
HttpFail(S) ==
    /\ req_result = "pending"
    /\ \E status \in S \ {STATUS_OK} :
        /\ ~ShouldRetry(status, attempt + 1, retries)
        /\ http_calls' = http_calls + 1
        /\ responses' = Append(responses, Response(status, FALSE))
        /\ attempt' = attempt + 1
    /\ req_result' = "none"
    /\ UNCHANGED <<retries, backoff_seconds, sleeps>>

\* ----------------------------------------------------- query_medrxiv_papers
SeqsUpTo(S, n) == UNION {[1..k -> S] : k \in 0..n}

\* One item of a page stands for the number of chunks textwrap.wrap gives for
\* its abstract once the term filter has passed (0: filtered out, or an empty
\* abstract).  The API serves its own page length whatever page_size is.
MedItems == 0..MaxChunks
MedPageDomain == SeqsUpTo(MedItems, MaxItems)

\* lines 225-239: the rows of one item, chunk_id = 0 .. n-1
process_medrxiv_item(page, idx, nchunks) ==
    [c \in 1..nchunks |-> [source |-> "medrxiv", page |-> page, item |-> idx, chunk_id |-> c - 1]]

\* lines 149-152 (and 317-320): append the rows of one item, stopping at the cap
RECURSIVE AddRows(_, _, _)
AddRows(coll, rows, cap) ==
    IF rows = <<>> THEN coll
    ELSE LET c2 == Append(coll, Head(rows))
         IN IF Len(c2) >= cap THEN c2 ELSE AddRows(c2, Tail(rows), cap)

\* lines 147-154 (and 315-322): the item loop, left once the cap is reached
RECURSIVE AddItems(_, _, _)
AddItems(coll, itemRows, cap) ==
    IF itemRows = <<>> THEN coll
    ELSE LET c2 == AddRows(coll, Head(itemRows), cap)
         IN IF Len(c2) >= cap THEN c2 ELSE AddItems(c2, Tail(itemRows), cap)

\* A variant of the end-of-results test that also stops on a full page.
ShouldStop_FullPage(collected_len, len_items, cap, psize) ==
    collected_len >= cap \/ len_items <= psize

\* line 159: leave the page loop when the cap is reached or the page is short
ShouldStop(collected_len, len_items, cap, psize) ==
    collected_len >= cap \/ len_items < psize

\* A variant of the cursor step that counts the rows collected from the page.
AdvanceCursor_ByRows(cur, len_items, added) == cur + added

\* line 157: cursor += len(items)
AdvanceCursor(cur, len_items, added) == cur + len_items

\* lines 137-139: the top of the loop issues the request for `cursor`
MedRequest ==
    /\ med_pc = "loop"
    /\ Len(requests) < MaxPages
    /\ requests' = Append(requests, cursor)
    /\ med_pc' = "request"
    /\ StartRequest
    /\ UNCHANGED <<cursor, collected, pages, med_failed, returned>>

ResetRequest ==
    /\ attempt' = 0
    /\ http_calls' = 0
    /\ sleeps' = <<>>
    /\ responses' = <<>>
    /\ req_result' = "idle"
    /\ UNCHANGED <<retries, backoff_seconds>>

\* lines 140-141: _request_json gave None, the partial list is returned
MedRequestFailed ==
    /\ med_pc = "request"
    /\ req_result = "none"
    /\ med_pc' = "returned"
    /\ med_failed' = TRUE
    /\ returned' = collected
    /\ ResetRequest
    /\ UNCHANGED <<cursor, collected, requests, pages>>

\* line 139: an exception of http.get leaves _request_json and, with no
\* handler in query_medrxiv_papers, the fetch as well
MedRequestRaised ==
    /\ med_pc = "request"
    /\ req_result = "raised"
    /\ med_pc' = "raised"
    /\ med_failed' = TRUE
    /\ ResetRequest
    /\ UNCHANGED <<cursor, collected, requests, pages, returned>>

\* lines 143-162: one decoded page
MedPage ==
    /\ med_pc = "request"
    /\ req_result = "json"
    /\ \E items \in MedPageDomain :
        LET itemRows == [i \in 1..Len(items) |->
                            process_medrxiv_item(Len(requests), i, items[i])]
            c2 == AddItems(collected, itemRows, max_results)
        IN /\ pages' = Append(pages, items)
           /\ IF items = <<>>
              THEN /\ med_pc' = "returned"
                   /\ returned' = collected
                   /\ UNCHANGED <<cursor, collected>>
              ELSE /\ collected' = c2
                   /\ cursor' = AdvanceCursor(cursor, Len(items), Len(c2) - Len(collected))
                   /\ IF ShouldStop(Len(c2), Len(items), max_results, page_size)
                      THEN med_pc' = "returned" /\ returned' = c2
                      ELSE med_pc' = "loop" /\ UNCHANGED returned
    /\ ResetRequest
    /\ UNCHANGED <<requests, med_failed>>

\* ------------------------------------------------------ _epmc_process_item
FULLTEXT_LIMIT == 2000

Word(ch, n) == <<<<ch, n>>>>
Blank == Word(SP, 3)

\* What GET {base_url}/{source}/{id} holds for an item: ok is FALSE when the
\* request raises, the status is not 200, the body is no JSON or it carries no
\* "result"; abstractText is the result's abstract.
DetailWorlds ==
    { [ok |-> FALSE, abstractText |-> <<>>],
      [ok |-> TRUE, abstractText |-> <<>>],
      [ok |-> TRUE, abstractText |-> Word("d", 300)] }

\* What GET .../fullTextXML holds for an item: ok is FALSE when the request
\* raises, the status is not 200 or the XML does not parse; paras are the
\* texts of the <p> elements under <abstract> and <body>.
FulltextWorlds ==
    { [ok |-> FALSE, paras |-> <<>>],
      [ok |-> TRUE, paras |-> <<>>],
      [ok |-> TRUE, paras |-> <<Word("p", 1200)>>],
      [ok |-> TRUE, paras |-> <<Word("p", 1500), Word("q", 900)>>],
      [ok |-> TRUE, paras |-> <<Blank, TCat(Word("q", 900), Blank)>>] }

\* The search results explored: the fields _epmc_process_item reads (an absent
\* or null field is the empty string) and the two endpoint worlds.
EpmcItems ==
    [ abstractText : {<<>>, Blank, TCat(TCat(Word("a", 300), Word(SP, 1)), Word("b", 300))},
      source : {"", "MED", "PMC"},
      id : {"", "1"},
      inPMC : {"N", "Y"},
      pmcid : {"", "PMC1"},
      doi : {"", "10.1/x"},
      detail : DetailWorlds,
      fulltext : FulltextWorlds ]

NoItem ==
    [ abstractText |-> <<>>, source |-> "", id |-> "", inPMC |-> "N", pmcid |-> "",
      doi |-> "", detail |-> [ok |-> FALSE, abstractText |-> <<>>],
      fulltext |-> [ok |-> FALSE, paras |-> <<>>] ]

\* lines 419-433: None without a request when source or id is missing
DetailRequested(it) == it.source # "" /\ it.id # ""
epmc_fetch_detail(it) ==
    IF DetailRequested(it) /\ it.detail.ok
    THEN [found |-> TRUE, abstractText |-> it.detail.abstractText]
    ELSE [found |-> FALSE, abstractText |-> <<>>]

\* lines 452-457: the stripped, non-empty paragraph texts
RECURSIVE FulltextParts(_)
FulltextParts(paras) ==
    IF paras = <<>> THEN <<>>
    ELSE (IF TStrip(Head(paras)) # <<>> THEN <<TStrip(Head(paras))>> ELSE <<>>)
         \o FulltextParts(Tail(paras))

\* lines 436-460: None without a request unless source is "PMC" and id is set
FulltextRequested(it) == it.source = "PMC" /\ it.id # ""
epmc_fetch_fulltext(it) ==
    IF FulltextRequested(it) /\ it.fulltext.ok
    THEN [found |-> TRUE, text |-> TJoin(FulltextParts(it.fulltext.paras), Word(NL, 2))]
    ELSE [found |-> FALSE, text |-> <<>>]

\* line 387: the item is PMC-sourced
PmcSourced(it) == it.source = "PMC" \/ it.inPMC = "Y" \/ it.pmcid # ""

\* lines 381-390: the abstract after the enrichment chain
AbstractAfterDetail(it) ==
    LET abstract == TStrip(it.abstractText)
    IN IF abstract = <<>> /\ epmc_fetch_detail(it).found
       THEN TStrip(epmc_fetch_detail(it).abstractText)
       ELSE abstract

EnrichedAbstract(it) ==
    LET abstract == AbstractAfterDetail(it)
    IN IF abstract = <<>> /\ PmcSourced(it) /\ epmc_fetch_fulltext(it).text # <<>>
       THEN TTake(epmc_fetch_fulltext(it).text, FULLTEXT_LIMIT)
       ELSE abstract

\* A variant of the chain that asks both endpoints for every item.
EnrichmentCalls_Eager(it) ==
    (IF DetailRequested(it) THEN <<"detail">> ELSE <<>>)
    \o (IF FulltextRequested(it) THEN <<"fulltext">> ELSE <<>>)

\* the enrichment requests _epmc_process_item issues, in order
EnrichmentCalls(it) ==
    (IF TStrip(it.abstractText) = <<>> /\ DetailRequested(it) THEN <<"detail">> ELSE <<>>)
    \o (IF AbstractAfterDetail(it) = <<>> /\ PmcSourced(it) /\ FulltextRequested(it)
        THEN <<"fulltext">> ELSE <<>>)

\* line 400: EPMC:{source}:{id}, or the DOI when both are empty
EpmcPaperId(it) ==
    IF it.id # "" \/ it.source # "" THEN <<"EPMC", it.source, it.id>> ELSE <<it.doi>>

\* lines 392-416: the rows of one item
epmc_process_item(it, width) ==
    LET abstract == EnrichedAbstract(it)
        wrapped == wrap(TReplaceNewlines(abstract), width)
    IN IF abstract = <<>> THEN <<>>
       ELSE [i \in 1..Len(wrapped) |->
                [ paper_id |-> EpmcPaperId(it),
                  source |-> "europe_pmc",
                  chunk_id |-> i - 1,
                  text_chunk |-> wrapped[i],
                  abstract |-> abstract,
                  doi |-> it.doi ]]

\* one call of _epmc_process_item
EpmcProcessItem ==
    /\ item_pc = "call"
    /\ item_rows' = epmc_process_item(item, wrap_width)
    /\ item_calls' = EnrichmentCalls(item)
    /\ item_pc' = "done"
    /\ UNCHANGED item

\* -------------------------------------------------- query_europe_pmc_papers
\* nextCursorMark missing from the response, or null
NoCursor == "None"
EpmcCursors == {NoCursor, "", "*", "AoE1", "AoE2"}

\* The results a search page is made of: an article with an abstract and one
\* for which the whole enrichment chain finds nothing.
EpmcPageItems ==
    { [NoItem EXCEPT !.abstractText = Word("a", 300), !.source = "MED", !.id = "1"],
      [NoItem EXCEPT !.source = "MED", !.id = "2"] }
EpmcPageDomain == SeqsUpTo(EpmcPageItems, MaxItems)

\* A variant of the cursor test without the no-progress guard.
NoProgress_AbsentOnly(next_cursor, cur) == next_cursor \in {NoCursor, ""}

\* line 326: not next_cursor or next_cursor == cursor
NoProgress(next_cursor, cur) == next_cursor \in {NoCursor, ""} \/ next_cursor = cur

\* lines 299-301: no terms, nothing to query
EpmcNoTerms ==
    /\ epmc_pc = "start"
    /\ terms = <<>>
    /\ epmc_pc' = "returned"
    /\ epmc_returned' = epmc_collected
    /\ UNCHANGED <<epmc_cursor, epmc_collected, epmc_requests, epmc_pages, epmc_failed>>

\* lines 303-305
EpmcStart ==
    /\ epmc_pc = "start"
    /\ terms # <<>>
    /\ epmc_cursor' = "*"
    /\ epmc_pc' = "loop"
    /\ UNCHANGED <<epmc_collected, epmc_requests, epmc_pages, epmc_failed, epmc_returned>>

\* A variant of the failed search request that gives up what was collected.
EpmcPageFailed_Empty ==
    /\ epmc_pc = "loop"
    /\ Len(epmc_requests) < MaxPages
    /\ epmc_requests' = Append(epmc_requests, epmc_cursor)
    /\ epmc_failed' = TRUE
    /\ epmc_pc' = "returned"
    /\ epmc_returned' = <<>>
    /\ UNCHANGED <<epmc_cursor, epmc_collected, epmc_pages>>

\* lines 308-310 with 356-368: the search request raises, is answered with a
\* status other than 200 or with a body that is no JSON
EpmcPageFailed ==
    /\ epmc_pc = "loop"
    /\ Len(epmc_requests) < MaxPages
    /\ epmc_requests' = Append(epmc_requests, epmc_cursor)
    /\ epmc_failed' = TRUE
    /\ epmc_pc' = "returned"
    /\ epmc_returned' = epmc_collected
    /\ UNCHANGED <<epmc_cursor, epmc_collected, epmc_pages>>

\* lines 308-330: one search page
EpmcPage ==
    /\ epmc_pc = "loop"
    /\ Len(epmc_requests) < MaxPages
    /\ epmc_requests' = Append(epmc_requests, epmc_cursor)
    /\ \E results \in EpmcPageDomain, next_cursor \in EpmcCursors :
        LET itemRows == [i \in 1..Len(results) |-> epmc_process_item(results[i], wrap_width)]
            c2 == AddItems(epmc_collected, itemRows, max_results)
        IN /\ epmc_pages' = Append(epmc_pages, [results |-> results, next_cursor |-> next_cursor])
           /\ IF results = <<>>
              THEN /\ epmc_pc' = "returned"
                   /\ epmc_returned' = epmc_collected
                   /\ UNCHANGED <<epmc_cursor, epmc_collected>>
              ELSE /\ epmc_collected' = c2
                   /\ IF Len(c2) >= max_results \/ NoProgress(next_cursor, epmc_cursor)
                      THEN /\ epmc_pc' = "returned"
                           /\ epmc_returned' = c2
                           /\ UNCHANGED epmc_cursor
                      ELSE /\ epmc_pc' = "loop"
                           /\ epmc_cursor' = next_cursor
                           /\ UNCHANGED epmc_returned
    /\ UNCHANGED epmc_failed

\* -------------------------------------------------------------- dedupe_rows
Row(src, pid, doi, published, chunk_id, text_chunk) ==
    [ source |-> src, paper_id |-> pid, doi |-> doi, published |-> published,
      chunk_id |-> chunk_id, text_chunk |-> text_chunk ]

\* A variant of the key that prefers paper_id to doi.
DedupeKey_PaperIdFirst(r) ==
    << IF r.paper_id # "" THEN r.paper_id ELSE r.doi, r.published, r.chunk_id, r.text_chunk >>

\* lines 273-278: (doi or paper_id or "", published, chunk_id, text_chunk); a
\* row without a "doi" key (arXiv) has doi ""
DedupeKey(r) ==
    << IF r.doi # "" THEN r.doi ELSE r.paper_id, r.published, r.chunk_id, r.text_chunk >>

\* A variant of the loop that removes the first repeated row only.
DedupeFrom_FirstRepeatOnly(rows, seen, out) ==
    LET reps == {i \in 1..Len(rows) : \E j \in 1..(i - 1) : DedupeKey(rows[j]) = DedupeKey(rows[i])}
        first == IF reps = {} THEN 0 ELSE CHOOSE i \in reps : \A j \in reps : i <= j
    IN out \o [i \in 1..(Len(rows) - (IF first = 0 THEN 0 ELSE 1)) |->
                  IF first = 0 \/ i < first THEN rows[i] ELSE rows[i + 1]]

\* lines 272-282: the loop over rows with the `seen` set
RECURSIVE DedupeFrom(_, _, _)
DedupeFrom(rows, seen, out) ==
    IF rows = <<>> THEN out
    ELSE IF DedupeKey(Head(rows)) \in seen
         THEN DedupeFrom(Tail(rows), seen, out)
         ELSE DedupeFrom(Tail(rows), seen \cup {DedupeKey(Head(rows))}, Append(out, Head(rows)))

\* lines 269-283
dedupe_rows(rows) == DedupeFrom(rows, {}, <<>>)

\* ----------------------------------------------------------- download_papers
Topics == 1..MaxTopics
TermLists == {<<>>, <<"pcos">>}
WrapWidths == {200, 500}

\* Rows the three fetchers may return when dedupe_rows is explored: the same
\* article under its DOI from each source, with rows that differ from it in one
\* part of the key.
ArxivRows ==
    { Row("arxiv", "10.1/x", "", "2024-01-01", 0, "t"),
      Row("arxiv", "10.1/x", "", "2024-01-01", 1, "t") }
MedrxivRows ==
    { Row("medrxiv", "10.1/x", "10.1/x", "2024-01-01", 0, "t"),
      Row("medrxiv", "10.1/x", "10.1/x", "2024-01-01", 0, "u"),
      Row("medrxiv", "10.1/x", "10.1/x", "2024-01-02", 0, "t"),
      Row("medrxiv", "medrxiv_1", "", "2024-01-01", 0, "t") }
EpmcRows ==
    { Row("europe_pmc", "EPMC:MED:1", "10.1/x", "2024-01-01", 0, "t"),
      Row("europe_pmc", "EPMC:MED:1", "", "2024-01-01", 0, "t"),
      Row("europe_pmc", "EPMC:MED:1", "10.1/x", "2024-01-01", 1, "t") }

\* What the fetchers return in the topic loop.
RunArxivResults == { <<>>, <<Row("arxiv", "10.1/x", "", "2024-01-01", 0, "t")>> }
RunMedrxivResults ==
    { <<>>,
      << Row("medrxiv", "10.1/x", "10.1/x", "2024-01-01", 0, "t"),
         Row("medrxiv", "medrxiv_1", "", "2024-01-01", 0, "t") >> }
RunEpmcResults == { <<>>, <<Row("europe_pmc", "EPMC:MED:1", "10.1/x", "2024-01-01", 0, "t")>> }

\* A variant of the handlers that lets the exception end the run.
CatchAndContinue_Reraise ==
    /\ run_pc' = "aborted"
    /\ UNCHANGED topic

\* lines 523-526: both handlers print and the for loop takes the next topic
CatchAndContinue ==
    /\ run_pc' = "topic"
    /\ topic' = topic + 1

\* line 494: the loop takes the next topic of all_terms
RunTopicStart ==
    /\ run_pc = "topic"
    /\ topic \in Topics
    /\ terms' \in TermLists
    /\ started' = started \cup {topic}
    /\ arxiv_data' = <<>> /\ medrxiv_data' = <<>> /\ epmc_data' = <<>>
    /\ combined' = <<>> /\ written' = <<>>
    /\ run_pc' = "arxiv"
    /\ UNCHANGED <<use_arxiv, use_medrxiv, use_epmc, topic, queried, empty_page, failed,
                   save_count, max_results, page_size, wrap_width>>

\* line 494: all_terms is exhausted
RunFinish ==
    /\ run_pc = "topic"
    /\ topic \notin Topics
    /\ run_pc' = "done"
    /\ UNCHANGED <<use_arxiv, use_medrxiv, use_epmc, topic, arxiv_data, medrxiv_data,
                   epmc_data, combined, started, queried, empty_page, failed, save_count,
                   written, paramVars>>

\* line 497: arXiv is disabled
RunArxivSkipped ==
    /\ run_pc = "arxiv"
    /\ ~use_arxiv
    /\ arxiv_data' = <<>>
    /\ run_pc' = "medrxiv"
    /\ UNCHANGED <<use_arxiv, use_medrxiv, use_epmc, topic, medrxiv_data, epmc_data,
                   combined, started, queried, empty_page, failed, save_count, written,
                   paramVars>>

\* line 497: query_arxiv_papers returns
RunArxivReturns ==
    /\ run_pc = "arxiv"
    /\ use_arxiv
    /\ queried' = queried \cup {<<topic, "arxiv">>}
    /\ arxiv_data' \in RunArxivResults
    /\ run_pc' = "medrxiv"
    /\ UNCHANGED <<use_arxiv, use_medrxiv, use_epmc, topic, medrxiv_data, epmc_data,
                   combined, started, empty_page, failed, save_count, written, paramVars>>

\* lines 497, 523-524: client.results raises arxiv.UnexpectedEmptyPageError
RunArxivEmptyPage ==
    /\ run_pc = "arxiv"
    /\ use_arxiv
    /\ queried' = queried \cup {<<topic, "arxiv">>}
    /\ empty_page' = empty_page \cup {topic}
    /\ CatchAndContinue
    /\ UNCHANGED <<use_arxiv, use_medrxiv, use_epmc, arxiv_data, medrxiv_data, epmc_data,
                   combined, started, failed, save_count, written, paramVars>>

\* lines 497, 525-526: query_arxiv_papers raises another exception
RunArxivRaises ==
    /\ run_pc = "arxiv"
    /\ use_arxiv
    /\ queried' = queried \cup {<<topic, "arxiv">>}
    /\ failed' = failed \cup {topic}
    /\ CatchAndContinue
    /\ UNCHANGED <<use_arxiv, use_medrxiv, use_epmc, arxiv_data, medrxiv_data, epmc_data,
                   combined, started, empty_page, save_count, written, paramVars>>

\* lines 498-510: medRxiv is disabled
RunMedrxivSkipped ==
    /\ run_pc = "medrxiv"
    /\ ~use_medrxiv
    /\ medrxiv_data' = <<>>
    /\ run_pc' = "epmc"
    /\ UNCHANGED <<use_arxiv, use_medrxiv, use_epmc, topic, arxiv_data, epmc_data,
                   combined, started, queried, empty_page, failed, save_count, written,
                   paramVars>>

\* lines 498-510: query_medrxiv_papers returns
RunMedrxivReturns ==
    /\ run_pc = "medrxiv"
    /\ use_medrxiv
    /\ queried' = queried \cup {<<topic, "medrxiv">>}
    /\ medrxiv_data' \in RunMedrxivResults
    /\ run_pc' = "epmc"
    /\ UNCHANGED <<use_arxiv, use_medrxiv, use_epmc, topic, arxiv_data, epmc_data,
                   combined, started, empty_page, failed, save_count, written, paramVars>>

\* A variant in which a failing medRxiv fetch counts as an empty result and the
\* topic goes on to Europe PMC and to the writer.
RunMedrxivRaises_TreatedAsEmpty ==
    /\ run_pc = "medrxiv"
    /\ use_medrxiv
    /\ queried' = queried \cup {<<topic, "medrxiv">>}
    /\ failed' = failed \cup {topic}
    /\ medrxiv_data' = <<>>
    /\ run_pc' = "epmc"
    /\ UNCHANGED <<use_arxiv, use_medrxiv, use_epmc, topic, arxiv_data, epmc_data,
                   combined, started, empty_page, save_count, written, paramVars>>

\* lines 498-510, 525-526: query_medrxiv_papers raises (http.get of
\* _request_json raising)
RunMedrxivRaises ==
    /\ run_pc = "medrxiv"
    /\ use_medrxiv
    /\ queried' = queried \cup {<<topic, "medrxiv">>}
    /\ failed' = failed \cup {topic}
    /\ CatchAndContinue
    /\ UNCHANGED <<use_arxiv, use_medrxiv, use_epmc, arxiv_data, medrxiv_data, epmc_data,
                   combined, started, empty_page, save_count, written, paramVars>>

\* lines 511-520: Europe PMC is disabled
RunEpmcSkipped ==
    /\ run_pc = "epmc"
    /\ ~use_epmc
    /\ epmc_data' = <<>>
    /\ run_pc' = "save"
    /\ UNCHANGED <<use_arxiv, use_medrxiv, use_epmc, topic, arxiv_data, medrxiv_data,
                   combined, started, queried, empty_page, failed, save_count, written,
                   paramVars>>

\* lines 511-520: query_europe_pmc_papers returns (nothing without terms)
RunEpmcReturns ==
    /\ run_pc = "epmc"
    /\ use_epmc
    /\ queried' = queried \cup {<<topic, "epmc">>}
    /\ epmc_data' \in (IF terms = <<>> THEN {<<>>} ELSE RunEpmcResults)
    /\ run_pc' = "save"
    /\ UNCHANGED <<use_arxiv, use_medrxiv, use_epmc, topic, arxiv_data, medrxiv_data,
                   combined, started, empty_page, failed, save_count, written, paramVars>>

\* lines 511-520, 525-526: query_europe_pmc_papers raises (a response that is
\* JSON but no object)
RunEpmcRaises ==
    /\ run_pc = "epmc"
    /\ use_epmc
    /\ terms # <<>>
    /\ queried' = queried \cup {<<topic, "epmc">>}
    /\ failed' = failed \cup {topic}
    /\ CatchAndContinue
    /\ UNCHANGED <<use_arxiv, use_medrxiv, use_epmc, arxiv_data, medrxiv_data, epmc_data,
                   combined, started, empty_page, save_count, written, paramVars>>

\* line 521: the three lists in the order arXiv, medRxiv, Europe PMC
Aggregate == dedupe_rows(arxiv_data \o medrxiv_data \o epmc_data)

\* lines 521-522: deduplicate and save, then the next topic
RunSave ==
    /\ run_pc = "save"
    /\ combined' = Aggregate
    /\ written' = Aggregate
    /\ save_count' = [save_count EXCEPT ![topic] = @ + 1]
    /\ run_pc' = "topic"
    /\ topic' = topic + 1
    /\ UNCHANGED <<use_arxiv, use_medrxiv, use_epmc, arxiv_data, medrxiv_data, epmc_data,
                   started, queried, empty_page, failed, paramVars>>

\* lines 521-522, 525-526: save_collected_data raises (the file cannot be
\* opened or written)
RunSaveRaises ==
    /\ run_pc = "save"
    /\ combined' = Aggregate
    /\ save_count' = [save_count EXCEPT ![topic] = @ + 1]
    /\ failed' = failed \cup {topic}
    /\ CatchAndContinue
    /\ UNCHANGED <<use_arxiv, use_medrxiv, use_epmc, arxiv_data, medrxiv_data, epmc_data,
                   started, queried, empty_page, written, paramVars>>

\* ------------------------------------------------------------ specifications
RequestIdle ==
    /\ attempt = 0
    /\ http_calls = 0
    /\ sleeps = <<>>
    /\ responses = <<>>
    /\ req_result = "idle"

NoRequest == retries = 0 /\ backoff_seconds = 0 /\ RequestIdle

MedIdle ==
    /\ cursor = 0
    /\ collected = <<>>
    /\ requests = <<>>
    /\ pages = <<>>
    /\ med_pc = "idle"
    /\ med_failed = FALSE
    /\ returned = <<>>

ItemIdle ==
    /\ item = NoItem
    /\ item_pc = "idle"
    /\ item_rows = <<>>
    /\ item_calls = <<>>

EpmcIdle ==
    /\ epmc_cursor = ""
    /\ epmc_collected = <<>>
    /\ epmc_requests = <<>>
    /\ epmc_pages = <<>>
    /\ epmc_pc = "idle"
    /\ epmc_failed = FALSE
    /\ epmc_returned = <<>>

RunIdle ==
    /\ use_arxiv = FALSE /\ use_medrxiv = FALSE /\ use_epmc = FALSE
    /\ topic = 0
    /\ run_pc = "idle"
    /\ arxiv_data = <<>> /\ medrxiv_data = <<>> /\ epmc_data = <<>>
    /\ combined = <<>>
    /\ started = {} /\ queried = {} /\ empty_page = {} /\ failed = {}
    /\ save_count = [t \in Topics |-> 0]
    /\ written = <<>>

DocIdle == doc_text = <<>> /\ doc_pc = "idle" /\ doc_rows = <<>> /\ doc_cells = <<>>

PageIdle ==
    page_items = <<>> /\ page_pc = "idle" /\ page_rows = <<>> /\ page_collected = <<>>

LogIdle == attempts_used = 0

NoParams == terms = <<>> /\ max_results = 0 /\ page_size = 0 /\ wrap_width = 0

\* ---- one call of _request_json
InitRequest ==
    /\ retries \in 0..MaxRetries
    /\ backoff_seconds \in BackoffChoices
    /\ attempt = 0
    /\ http_calls = 0
    /\ sleeps = <<>>
    /\ responses = <<>>
    /\ req_result = "pending"
    /\ NoParams /\ MedIdle /\ ItemIdle /\ EpmcIdle /\ RunIdle
    /\ DocIdle /\ PageIdle
    /\ LogIdle

NextRequest ==
    \/ HttpRaises /\ UNCHANGED <<paramVars, medVars, itemVars, epmcVars, runVars, docVars, pageVars, logVars>>
    \/ HttpOkJson /\ UNCHANGED <<paramVars, medVars, itemVars, epmcVars, runVars, docVars, pageVars, logVars>>
    \/ HttpOkUndecodable /\ UNCHANGED <<paramVars, medVars, itemVars, epmcVars, runVars, docVars, pageVars, logVars>>
    \/ HttpRetry(Statuses) /\ UNCHANGED <<paramVars, medVars, itemVars, epmcVars, runVars, docVars, pageVars, logVars>>
    \/ HttpFail(Statuses) /\ UNCHANGED <<paramVars, medVars, itemVars, epmcVars, runVars, docVars, pageVars, logVars>>

SpecRequest == InitRequest /\ [][NextRequest]_vars

\* ---- one call of query_medrxiv_papers (backoff_seconds at its default of
\* line 110, 1.5 s; its other values are explored in SpecRequest and
\* SpecMedRetry)
InitMedrxiv ==
    /\ retries \in 0..MaxRetries
    /\ backoff_seconds = 15
    /\ RequestIdle
    /\ terms = <<>>
    /\ max_results \in 0..MaxResults
    /\ page_size \in PageSizes
    /\ wrap_width = 500
    /\ cursor = 0
    /\ collected = <<>>
    /\ requests = <<>>
    /\ pages = <<>>
    /\ med_pc = "loop"
    /\ med_failed = FALSE
    /\ returned = <<>>
    /\ ItemIdle /\ EpmcIdle /\ RunIdle
    /\ DocIdle /\ PageIdle
    /\ LogIdle

NextMedrxiv ==
    \/ MedRequest /\ UNCHANGED <<paramVars, itemVars, epmcVars, runVars, docVars, pageVars, logVars>>
    \/ HttpRaises /\ UNCHANGED <<paramVars, medVars, itemVars, epmcVars, runVars, docVars, pageVars, logVars>>
    \/ HttpOkJson /\ UNCHANGED <<paramVars, medVars, itemVars, epmcVars, runVars, docVars, pageVars, logVars>>
    \/ HttpOkUndecodable /\ UNCHANGED <<paramVars, medVars, itemVars, epmcVars, runVars, docVars, pageVars, logVars>>
    \/ HttpRetry(MedStatuses) /\ UNCHANGED <<paramVars, medVars, itemVars, epmcVars, runVars, docVars, pageVars, logVars>>
    \/ HttpFail(MedStatuses) /\ UNCHANGED <<paramVars, medVars, itemVars, epmcVars, runVars, docVars, pageVars, logVars>>
    \/ MedRequestFailed /\ UNCHANGED <<paramVars, itemVars, epmcVars, runVars, docVars, pageVars, logVars>>
    \/ MedRequestRaised /\ UNCHANGED <<paramVars, itemVars, epmcVars, runVars, docVars, pageVars, logVars>>
    \/ MedPage /\ UNCHANGED <<paramVars, itemVars, epmcVars, runVars, docVars, pageVars, logVars>>

SpecMedrxiv == InitMedrxiv /\ [][NextMedrxiv]_vars

\* ---- one call of _epmc_process_item
InitEpmcItem ==
    /\ item \in EpmcItems
    /\ item_pc = "call"
    /\ item_rows = <<>>
    /\ item_calls = <<>>
    /\ terms = <<>> /\ max_results = 0 /\ page_size = 0
    /\ wrap_width \in WrapWidths
    /\ NoRequest /\ MedIdle /\ EpmcIdle /\ RunIdle
    /\ DocIdle /\ PageIdle
    /\ LogIdle

NextEpmcItem ==
    EpmcProcessItem /\ UNCHANGED <<paramVars, reqVars, medVars, epmcVars, runVars, docVars, pageVars, logVars>>

SpecEpmcItem == InitEpmcItem /\ [][NextEpmcItem]_vars

\* ---- one call of query_europe_pmc_papers
InitEpmc ==
    /\ terms \in TermLists
    /\ max_results \in 0..MaxResults
    /\ page_size = 100
    /\ wrap_width = 500
    /\ epmc_cursor = ""
    /\ epmc_collected = <<>>
    /\ epmc_requests = <<>>
    /\ epmc_pages = <<>>
    /\ epmc_pc = "start"
    /\ epmc_failed = FALSE
    /\ epmc_returned = <<>>
    /\ NoRequest /\ MedIdle /\ ItemIdle /\ RunIdle
    /\ DocIdle /\ PageIdle
    /\ LogIdle

NextEpmc ==
    \/ EpmcNoTerms /\ UNCHANGED <<paramVars, reqVars, medVars, itemVars, runVars, docVars, pageVars, logVars>>
    \/ EpmcStart /\ UNCHANGED <<paramVars, reqVars, medVars, itemVars, runVars, docVars, pageVars, logVars>>
    \/ EpmcPageFailed /\ UNCHANGED <<paramVars, reqVars, medVars, itemVars, runVars, docVars, pageVars, logVars>>
    \/ EpmcPage /\ UNCHANGED <<paramVars, reqVars, medVars, itemVars, runVars, docVars, pageVars, logVars>>

SpecEpmc == InitEpmc /\ [][NextEpmc]_vars

\* ---- the topic loop of download_papers
InitRun ==
    /\ use_arxiv \in BOOLEAN /\ use_medrxiv \in BOOLEAN /\ use_epmc \in BOOLEAN
    /\ topic = 1
    /\ run_pc = "topic"
    /\ arxiv_data = <<>> /\ medrxiv_data = <<>> /\ epmc_data = <<>>
    /\ combined = <<>>
    /\ started = {} /\ queried = {} /\ empty_page = {} /\ failed = {}
    /\ save_count = [t \in Topics |-> 0]
    /\ written = <<>>
    /\ terms = <<>> /\ max_results = 500 /\ page_size = 100 /\ wrap_width = 500
    /\ NoRequest /\ MedIdle /\ ItemIdle /\ EpmcIdle
    /\ DocIdle /\ PageIdle
    /\ LogIdle

NextRun ==
    \/ RunTopicStart /\ UNCHANGED <<reqVars, medVars, itemVars, epmcVars, docVars, pageVars, logVars>>
    \/ RunFinish /\ UNCHANGED <<reqVars, medVars, itemVars, epmcVars, docVars, pageVars, logVars>>
    \/ RunArxivSkipped /\ UNCHANGED <<reqVars, medVars, itemVars, epmcVars, docVars, pageVars, logVars>>
    \/ RunArxivReturns /\ UNCHANGED <<reqVars, medVars, itemVars, epmcVars, docVars, pageVars, logVars>>
    \/ RunArxivEmptyPage /\ UNCHANGED <<reqVars, medVars, itemVars, epmcVars, docVars, pageVars, logVars>>
    \/ RunArxivRaises /\ UNCHANGED <<reqVars, medVars, itemVars, epmcVars, docVars, pageVars, logVars>>
    \/ RunMedrxivSkipped /\ UNCHANGED <<reqVars, medVars, itemVars, epmcVars, docVars, pageVars, logVars>>
    \/ RunMedrxivReturns /\ UNCHANGED <<reqVars, medVars, itemVars, epmcVars, docVars, pageVars, logVars>>
    \/ RunMedrxivRaises /\ UNCHANGED <<reqVars, medVars, itemVars, epmcVars, docVars, pageVars, logVars>>
    \/ RunEpmcSkipped /\ UNCHANGED <<reqVars, medVars, itemVars, epmcVars, docVars, pageVars, logVars>>
    \/ RunEpmcReturns /\ UNCHANGED <<reqVars, medVars, itemVars, epmcVars, docVars, pageVars, logVars>>
    \/ RunEpmcRaises /\ UNCHANGED <<reqVars, medVars, itemVars, epmcVars, docVars, pageVars, logVars>>
    \/ RunSave /\ UNCHANGED <<reqVars, medVars, itemVars, epmcVars, docVars, pageVars, logVars>>
    \/ RunSaveRaises /\ UNCHANGED <<reqVars, medVars, itemVars, epmcVars, docVars, pageVars, logVars>>

SpecRun == InitRun /\ [][NextRun]_vars

\* Every step of the loop is a blocking call that returns or raises (requests
\* time out, retries are bounded), so the loop always takes its next step.
FairRun == SpecRun /\ WF_vars(NextRun)

\* ---- dedupe_rows on the lists of the three sources (lines 521-522)
InitDedupe ==
    /\ use_arxiv = TRUE /\ use_medrxiv = TRUE /\ use_epmc = TRUE
    /\ topic = 1
    /\ run_pc = "save"
    /\ arxiv_data \in SeqsUpTo(ArxivRows, MaxRows)
    /\ medrxiv_data \in SeqsUpTo(MedrxivRows, MaxRows)
    /\ epmc_data \in SeqsUpTo(EpmcRows, MaxRows)
    /\ combined = <<>>
    /\ started = {1}
    /\ queried = {<<1, "arxiv">>, <<1, "medrxiv">>, <<1, "epmc">>}
    /\ empty_page = {} /\ failed = {}
    /\ save_count = [t \in Topics |-> 0]
    /\ written = <<>>
    /\ terms = <<"pcos">> /\ max_results = 500 /\ page_size = 100 /\ wrap_width = 500
    /\ NoRequest /\ MedIdle /\ ItemIdle /\ EpmcIdle
    /\ DocIdle /\ PageIdle
    /\ LogIdle

NextDedupe ==
    \/ RunSave /\ UNCHANGED <<reqVars, medVars, itemVars, epmcVars, docVars, pageVars, logVars>>
    \/ RunSaveRaises /\ UNCHANGED <<reqVars, medVars, itemVars, epmcVars, docVars, pageVars, logVars>>

SpecDedupe == InitDedupe /\ [][NextDedupe]_vars

\* ------------------------------------------------ chunking of one article
MaxRuns == 3        \* most runs of equal characters in an article text
MaxRun == 2         \* longest run of equal characters in an article text
MaxWidth == 4       \* largest value of the `wrap_width` parameter explored here

Sources == {"arxiv", "medrxiv", "europe_pmc"}

\* The article texts explored: letters, spaces, newlines and tabs.
DocChars == {"a", "b", SP, NL, TAB}
DocRuns == DocChars \X (1..MaxRun)
DocTexts ==
    { t \in SeqsUpTo(DocRuns, MaxRuns) : \A i \in 1..(Len(t) - 1) : t[i][1] # t[i + 1][1] }

\* A variant of enumerate that counts from one.
Enumerate_FromOne(seq) == [i \in 1..Len(seq) |-> <<i, seq[i]>>]

\* enumerate(seq): pairs (index, element), the index starting at 0
Enumerate(seq) == [i \in 1..Len(seq) |-> <<i - 1, seq[i]>>]

\* lines 86, 212 and 225, 381 and 402: the text handed to textwrap.wrap is the
\* stripped text with its newlines replaced by spaces
WrapInput(text) == TReplaceNewlines(TStrip(text))

\* lines 86-98, 225-238, 392-415: the chunk rows of one article; only
\* _epmc_process_item returns before wrapping when the stripped text is empty
chunk_rows(src, text, width) ==
    IF src = "europe_pmc" /\ TStrip(text) = <<>> THEN <<>>
    ELSE LET pairs == Enumerate(wrap(WrapInput(text), width))
         IN [i \in 1..Len(pairs) |->
                [source |-> src, chunk_id |-> pairs[i][1], text_chunk |-> pairs[i][2]]]

\* lines 56-62: _normalize_cell on a string value
normalize_cell(value) == TStrip(TCollapse(value))

\* one article chunked by each fetcher, and its cells as the writer emits them
ChunkArticle ==
    /\ doc_pc = "call"
    /\ doc_rows' = [src \in Sources |-> chunk_rows(src, doc_text, wrap_width)]
    /\ doc_cells' = [src \in Sources |->
                        LET rows == chunk_rows(src, doc_text, wrap_width)
                        IN [i \in 1..Len(rows) |-> normalize_cell(rows[i].text_chunk)]]
    /\ doc_pc' = "done"
    /\ UNCHANGED doc_text

InitWrap ==
    /\ doc_text \in DocTexts
    /\ doc_pc = "call"
    /\ doc_rows = <<>>
    /\ doc_cells = <<>>
    /\ terms = <<>> /\ max_results = 0 /\ page_size = 0
    /\ wrap_width \in 1..MaxWidth
    /\ NoRequest /\ MedIdle /\ ItemIdle /\ EpmcIdle /\ RunIdle /\ PageIdle
    /\ LogIdle

NextWrap ==
    ChunkArticle /\ UNCHANGED <<paramVars, reqVars, medVars, itemVars, epmcVars, runVars, pageVars, logVars>>

SpecWrap == InitWrap /\ [][NextWrap]_vars

\* ---------------------------------------------------- _process_medrxiv_item
\* A date string is kept by its parts: form "ymd" stands for the text
\* YYYY-MM-DD followed by tail, with any numbers for month and day; form "raw"
\* stands for any other text, held in tail ("" is the empty string).
DateText(form, y, m, d, tail) == [form |-> form, y |-> y, m |-> m, d |-> d, tail |-> tail]
EmptyDate == DateText("raw", 0, 0, 0, "")

IsLeapYear(y) == (y % 4 = 0 /\ y % 100 # 0) \/ y % 400 = 0
DaysInMonth(y, m) ==
    IF m = 2 THEN (IF IsLeapYear(y) THEN 29 ELSE 28)
    ELSE IF m \in {4, 6, 9, 11} THEN 30 ELSE 31

\* datetime.fromisoformat(date_str[:10]) succeeds
ParsesAsDate(date_str) ==
    /\ date_str.form = "ymd"
    /\ date_str.y \in 1..9999
    /\ date_str.m \in 1..12
    /\ date_str.d \in 1..DaysInMonth(date_str.y, date_str.m)

\* lines 242-248: "" for "", the date part of a text that parses, and the text
\* itself when parsing raises
safe_date_iso(date_str) ==
    IF date_str = EmptyDate THEN EmptyDate
    ELSE IF ParsesAsDate(date_str)
         THEN DateText("ymd", date_str.y, date_str.m, date_str.d, "")
         ELSE date_str

\* The `date` values explored: absent, a timestamp of a leap day, the 29th of
\* February of a common year, a month 13, and a text that is no date.
MedDates ==
    { EmptyDate,
      DateText("ymd", 2024, 2, 29, "T00:00:00"),
      DateText("ymd", 2023, 2, 29, ""),
      DateText("raw", 0, 0, 0, "n/a") }

\* The items of a page explored: the fields _process_medrxiv_item reads, except
\* authors (copied to the row and read by nothing else).
MedPageItems ==
    [ title : {Word("A", 1), Word("b", 1)},
      abstract : {<<>>, <<<<"a", 1>>, <<SP, 1>>, <<"b", 1>>>>},
      doi : {"", "10.1/x"},
      date : MedDates,
      server : {"medrxiv"},
      version : {"1"} ]
MedPages == SeqsUpTo(MedPageItems, MaxItems)

\* The term lists explored: none, a lower-case term, the same term in upper case.
MedTermLists == {<<>>, <<Word("a", 1)>>, <<Word("A", 1)>>}
MedWrapWidths == {1, 500}

\* line 229: the DOI, or {server}_{version} when the item has none
MedPaperId(it) == IF it.doi # "" THEN <<it.doi>> ELSE <<it.server, it.version>>

\* lines 221-222: some term is a substring of the lower-cased title + " " +
\* abstract; the terms are taken as they are passed
AnyTermIn(lower_terms, title, abstract) ==
    LET ta_lower == TLower(TCat(TCat(title, Word(SP, 1)), abstract))
    IN \E k \in 1..Len(lower_terms) : TContains(lower_terms[k], ta_lower)

\* lines 211-239
medrxiv_process_item(it, lower_terms, width) ==
    LET abstract == TStrip(it.abstract)
        title == TStrip(it.title)
        published == safe_date_iso(it.date)
        wrapped == wrap(TReplaceNewlines(abstract), width)
    IN IF Len(lower_terms) > 0 /\ ~AnyTermIn(lower_terms, title, abstract) THEN <<>>
       ELSE [i \in 1..Len(wrapped) |->
                [ paper_id |-> MedPaperId(it),
                  title |-> title,
                  published |-> published,
                  source |-> "medrxiv",
                  chunk_id |-> i - 1,
                  text_chunk |-> wrapped[i],
                  abstract |-> abstract,
                  doi |-> it.doi ]]

\* lines 147-154: the item loop of query_medrxiv_papers on one page, `terms`
\* handed to _process_medrxiv_item as the caller gave them (line 148)
MedProcessPage ==
    /\ page_pc = "call"
    /\ LET rows == [i \in 1..Len(page_items) |->
                        medrxiv_process_item(page_items[i], terms, wrap_width)]
       IN /\ page_rows' = rows
          /\ page_collected' = AddItems(<<>>, rows, max_results)
    /\ page_pc' = "done"
    /\ UNCHANGED page_items

InitMedPage ==
    /\ page_items \in MedPages
    /\ page_pc = "call"
    /\ page_rows = <<>>
    /\ page_collected = <<>>
    /\ terms \in MedTermLists
    /\ max_results \in 1..MaxResults
    /\ page_size = 100
    /\ wrap_width \in MedWrapWidths
    /\ NoRequest /\ MedIdle /\ ItemIdle /\ EpmcIdle /\ RunIdle /\ DocIdle
    /\ LogIdle

NextMedPage ==
    MedProcessPage /\ UNCHANGED <<paramVars, reqVars, medVars, itemVars, epmcVars, runVars, docVars, logVars>>

SpecMedPage == InitMedPage /\ [][NextMedPage]_vars

\* ---- one call of query_medrxiv_papers with the failed attempts of its
\* completed page requests counted (lines 136-141 with 191-208)
InitMedRetry ==
    /\ retries \in 0..MaxRetries
    /\ backoff_seconds \in BackoffChoices
    /\ RequestIdle
    /\ terms = <<>>
    /\ max_results = MaxResults
    /\ page_size = 1
    /\ wrap_width = 500
    /\ cursor = 0
    /\ collected = <<>>
    /\ requests = <<>>
    /\ pages = <<>>
    /\ med_pc = "loop"
    /\ med_failed = FALSE
    /\ returned = <<>>
    /\ attempts_used = 0
    /\ ItemIdle /\ EpmcIdle /\ RunIdle /\ DocIdle /\ PageIdle

\* the page request in flight is over: its failed attempts are added up
CountAttempts == attempts_used' = attempts_used + attempt

\* the server of this specification answers with pages of at most one item
\* (page_size is 1), the content of the pages being of no account here
ShortPages == Len(pages'[Len(pages')]) <= 1

NextMedRetry ==
    \/ MedRequest /\ UNCHANGED <<paramVars, itemVars, epmcVars, runVars, docVars, pageVars, logVars>>
    \/ HttpRaises /\ UNCHANGED <<paramVars, medVars, itemVars, epmcVars, runVars, docVars, pageVars, logVars>>
    \/ HttpOkJson /\ UNCHANGED <<paramVars, medVars, itemVars, epmcVars, runVars, docVars, pageVars, logVars>>
    \/ HttpOkUndecodable /\ UNCHANGED <<paramVars, medVars, itemVars, epmcVars, runVars, docVars, pageVars, logVars>>
    \/ HttpRetry(MedStatuses) /\ UNCHANGED <<paramVars, medVars, itemVars, epmcVars, runVars, docVars, pageVars, logVars>>
    \/ HttpFail(MedStatuses) /\ UNCHANGED <<paramVars, medVars, itemVars, epmcVars, runVars, docVars, pageVars, logVars>>
    \/ MedRequestFailed /\ CountAttempts /\ UNCHANGED <<paramVars, itemVars, epmcVars, runVars, docVars, pageVars>>
    \/ MedRequestRaised /\ CountAttempts /\ UNCHANGED <<paramVars, itemVars, epmcVars, runVars, docVars, pageVars>>
    \/ MedPage /\ ShortPages /\ CountAttempts /\ UNCHANGED <<paramVars, itemVars, epmcVars, runVars, docVars, pageVars>>

SpecMedRetry == InitMedRetry /\ [][NextMedRetry]_vars

\* ------------------------------------------------- claims on _request_json
\* The retryable statuses as the specification lists them.
ClaimRetryable == {403, 429, 502, 503, 504}

FirstAreRetryable(k) ==
    /\ Len(responses) >= k
    /\ \A i \in 1..k : responses[i].status \in ClaimRetryable

\* exactly k sleeps, the i-th lasting backoff_seconds * i, strictly increasing
LinearBackoff(k) ==
    /\ Len(sleeps) = k
    /\ \A i \in 1..k : sleeps[i] = backoff_seconds * i
    /\ \A i \in 1..(k - 1) : sleeps[i] < sleeps[i + 1]

\* C1: when the first k <= retries responses carry a retryable status the
\* call is still running and has slept exactly k times, the i-th sleep lasting
\* backoff_seconds * i; when response k+1 is a 200 with a decodable body the
\* call returns the decoded body and no further sleep has happened.
C1_RetryThenSuccess ==
    \A k \in 0..retries :
        /\ (Len(responses) = k /\ FirstAreRetryable(k))
              => (req_result = "pending" /\ LinearBackoff(k))
        /\ ( /\ Len(responses) = k + 1
             /\ FirstAreRetryable(k)
             /\ responses[k + 1] = Response(200, TRUE) )
              => (req_result = "json" /\ LinearBackoff(k) /\ http_calls = k + 1)

\* C1 witness: 503, 503, 200 with a cap of at least 3 succeeded after 2 sleeps.
C1_Witness ==
    /\ retries >= 3
    /\ responses = <<Response(503, FALSE), Response(503, FALSE), Response(200, TRUE)>>
    /\ req_result = "json"
    /\ sleeps = <<backoff_seconds, 2 * backoff_seconds>>

OnlyRetryableSoFar ==
    \A i \in 1..Len(responses) : responses[i].status \in ClaimRetryable

\* C2 as stated: with every response retryable, the call issues no more than
\* `retries` HTTP attempts (taken for a positive cap, so that the first
\* attempt alone does not decide it).
C2_AtMostRetriesAttempts ==
    (retries >= 1 /\ OnlyRetryableSoFar) => http_calls <= retries

\* C2 amended: with every response retryable, the call issues exactly
\* retries + 1 HTTP attempts (the first one and `retries` retries), sleeps
\* `retries` times and then returns None.
C2_RetriesPlusOneAttempts ==
    OnlyRetryableSoFar =>
        /\ http_calls <= retries + 1
        /\ http_calls <= retries => (req_result = "pending" /\ Len(sleeps) = http_calls)
        /\ http_calls = retries + 1 => (req_result = "none" /\ Len(sleeps) = retries)

C2_Witness ==
    /\ OnlyRetryableSoFar
    /\ retries >= 2
    /\ http_calls = retries + 1
    /\ req_result = "none"

\* a non-success status outside the retryable set, or an undecodable 200
PermanentFailure(resp) ==
    \/ resp.status \notin (ClaimRetryable \cup {200, 0})
    \/ resp.status = 200 /\ ~resp.json

RECURSIVE Flatten(_)
Flatten(seqs) == IF seqs = <<>> THEN <<>> ELSE Head(seqs) \o Flatten(Tail(seqs))

RowsOfPage(p) ==
    Flatten([i \in 1..Len(pages[p]) |->
                [c \in 1..pages[p][i] |->
                    [source |-> "medrxiv", page |-> p, item |-> i, chunk_id |-> c - 1]]])

RowsOfPages == Flatten([p \in 1..Len(pages) |-> RowsOfPage(p)])

\* C4 as stated: a fetch that ends on a failed page request (after records
\* were collected from earlier pages) returns to its caller, and what it
\* returns is exactly the records of the pages received before the failure.
C4_FailureNeverPropagates ==
    (med_failed /\ collected # <<>>) =>
        (med_pc = "returned" /\ returned = RowsOfPages)

\* C5: while no request failed and the cap is not reached, every page before
\* the last requested one was full, a short (or empty) page ends the fetch with
\* as many requests as pages, and a full page sends the loop back to request
\* the next one.
C5_StopsAtFirstShortPage ==
    (~med_failed /\ Len(collected) < max_results) =>
        /\ \A i \in 1..(Len(requests) - 1) : Len(pages[i]) >= page_size
        /\ Len(pages) \in {Len(requests) - 1, Len(requests)}
        /\ med_pc = "returned" =>
              /\ Len(pages) = Len(requests)
              /\ Len(pages[Len(pages)]) < page_size
        /\ (/\ med_pc # "request"
            /\ Len(pages) >= 1
            /\ Len(pages[Len(pages)]) >= page_size) => med_pc = "loop"

\* C5 witness: pages of 2, 2 and 1 items with page_size 2 (the 100, 100, 37
\* case scaled down) ended the fetch after exactly 3 requests.
C5_Witness ==
    /\ page_size = 2
    /\ Len(pages) = 3
    /\ Len(pages[1]) = 2 /\ Len(pages[2]) = 2 /\ Len(pages[3]) = 1
    /\ Len(requests) = 3
    /\ med_pc = "returned"
    /\ ~med_failed
    /\ Len(collected) < max_results

\* ---------------------------------------- claims on query_europe_pmc_papers
\* C6: a page whose nextCursorMark is absent, empty or equal to the cursor
\* sent for it is the last page requested, whatever was collected; and every
\* request after the first carries the nextCursorMark of the page before it,
\* which differs from the cursor sent for that page.
C6_StopsWithoutNewCursor ==
    /\ \A i \in 1..Len(epmc_pages) :
          ( \/ epmc_pages[i].next_cursor \in {"None", ""}
            \/ epmc_pages[i].next_cursor = epmc_requests[i] )
          => (Len(epmc_requests) = i /\ epmc_pc = "returned")
    /\ \A i \in 1..(Len(epmc_requests) - 1) :
          /\ epmc_requests[i + 1] = epmc_pages[i].next_cursor
          /\ epmc_requests[i + 1] # epmc_requests[i]

\* C6 witness: the second page repeated the cursor it was requested with and
\* the fetch returned with fewer than max_results records.
C6_Witness ==
    /\ epmc_pc = "returned"
    /\ ~epmc_failed
    /\ Len(epmc_requests) = 2
    /\ Len(epmc_pages) = 2
    /\ epmc_pages[2].results # <<>>
    /\ epmc_pages[2].next_cursor = epmc_requests[2]
    /\ Len(epmc_returned) >= 1
    /\ Len(epmc_returned) < max_results

\* ---------------------------------------------- claims on _epmc_process_item
\* the item has no abstract of its own, the detail record supplies none, it
\* carries a PMC identifier, and a full-text document with paragraph text is
\* available for it
FulltextFallbackCase(it) ==
    /\ it.abstractText = <<>>
    /\ it.id # ""
    /\ it.source # ""
    /\ ~(it.detail.ok /\ TStrip(it.detail.abstractText) # <<>>)
    /\ (it.pmcid # "" \/ it.inPMC = "Y" \/ it.source = "PMC")
    /\ it.fulltext.ok
    /\ FulltextParts(it.fulltext.paras) # <<>>

\* C7 as stated: in the full-text fallback case the item yields records, their
\* abstract is the first 2000 characters of the paragraph texts joined by blank
\* lines, and their text_chunk values are that abstract wrapped.
C7_FulltextFallback ==
    (item_pc = "done" /\ FulltextFallbackCase(item)) =>
        LET expected == TTake(TJoin(FulltextParts(item.fulltext.paras), <<<<"\n", 2>>>>), 2000)
        IN /\ item_rows # <<>>
           /\ \A i \in 1..Len(item_rows) :
                 /\ item_rows[i].abstract = expected
                 /\ item_rows[i].text_chunk = wrap(expected, wrap_width)[i]
           /\ Len(item_rows) = Len(wrap(expected, wrap_width))

\* ------------------------------------------------- claims on download_papers
\* C8 as stated: with all sources enabled, a topic whose arXiv query raised
\* the unexpectedly-empty-page error still has medRxiv and Europe PMC queried
\* and its deduplicated records handed to the output writer.
C8_EmptyPageKeepsOtherSources ==
    (use_medrxiv /\ use_epmc) =>
        \A t \in empty_page :
            /\ <<t, "medrxiv">> \in queried
            /\ <<t, "epmc">> \in queried
            /\ save_count[t] = 1

\* C9: whatever fails in the topics before it, the processing of every topic
\* of the term set is eventually started.
C9_EveryTopicIsStarted == \A t \in Topics : <>(t \in started)

\* C9 witness: the second topic was started after the first one ended in an
\* exception of save_collected_data.
C9_Witness ==
    /\ 2 \in started
    /\ 1 \in failed
    /\ save_count[1] = 1

\* ----------------------------------------------------- claims on dedupe_rows
ClaimKey(r) ==
    << IF r.doi # "" THEN r.doi ELSE r.paper_id, r.published, r.chunk_id, r.text_chunk >>

AggregateInput == arxiv_data \o medrxiv_data \o epmc_data

\* positions of the input that hold the first record with their key
FirstOccurrences(rows) ==
    { i \in 1..Len(rows) : \A j \in 1..(i - 1) : ClaimKey(rows[j]) # ClaimKey(rows[i]) }

SourceRank(src) == IF src = "arxiv" THEN 1 ELSE IF src = "medrxiv" THEN 2 ELSE 3

\* C10: the aggregated list holds exactly the first record of each key of the
\* input (arXiv, then medRxiv, then Europe PMC), in input order, so its keys are
\* pairwise distinct and a key returned by two sources is kept once, under the
\* earlier source.
C10_DedupeKeepsFirst ==
    run_pc = "topic" =>
        LET inp == AggregateInput
            first == FirstOccurrences(inp)
        IN /\ Len(combined) = Cardinality(first)
           /\ \A i \in first :
                 combined[Cardinality({j \in first : j <= i})] = inp[i]
           /\ \A k, l \in 1..Len(combined) :
                 k # l => ClaimKey(combined[k]) # ClaimKey(combined[l])
           /\ \A i \in 1..Len(inp) :
                 \E k \in 1..Len(combined) :
                    /\ ClaimKey(combined[k]) = ClaimKey(inp[i])
                    /\ SourceRank(combined[k].source) <= SourceRank(inp[i].source)

\* C10 witness: arXiv and medRxiv returned a record with the same key and the
\* aggregated list keeps the arXiv one only.
C10_Witness ==
    /\ run_pc = "topic"
    /\ Len(arxiv_data) >= 1 /\ Len(medrxiv_data) >= 1 /\ Len(epmc_data) >= 1
    /\ ClaimKey(arxiv_data[1]) = ClaimKey(medrxiv_data[1])
    /\ ClaimKey(arxiv_data[1]) = ClaimKey(epmc_data[1])
    /\ Cardinality({k \in 1..Len(combined) : ClaimKey(combined[k]) = ClaimKey(arxiv_data[1])}) = 1
    /\ combined[1].source = "arxiv"
    /\ Len(combined) < Len(AggregateInput)

\* C11: dedupe_rows is idempotent.  The list the aggregation produced is left
\* as it is by a second dedupe_rows, records and order alike, and the same
\* holds for the undeduplicated input of the aggregation.
C11_DedupeIdempotent ==
    /\ dedupe_rows(dedupe_rows(AggregateInput)) = dedupe_rows(AggregateInput)
    /\ run_pc = "topic" => dedupe_rows(combined) = combined

\* C11 witness: the aggregation removed more than one record and kept more than
\* one, and a second pass changes nothing.
C11_Witness ==
    /\ run_pc = "topic"
    /\ Len(combined) >= 2
    /\ Len(combined) + 2 <= Len(AggregateInput)
    /\ dedupe_rows(combined) = combined

\* ------------------------------------------------------ claims on chunking
\* the words of a text: its maximal runs of non-whitespace characters
WordsOf(text) ==
    LET cs == WrapSplit(TSpaces(text))
    IN { cs[i] : i \in {j \in 1..Len(cs) : ~IsBlankChunk(cs[j])} }

HasChar(text, ch) == \E i \in 1..Len(text) : text[i][1] = ch

\* the whitespace-normalized text: whitespace runs collapsed, ends trimmed
Normalized(text) == TStrip(TCollapse(text))

\* C13: the records produced for an article carry chunk_id 0, 1, ..., n-1 in
\* production order, n being the number of chunks the wrapper produced, and an
\* article whose text is empty once normalized produces no record.
C13_ChunkIdsContiguous ==
    doc_pc = "done" =>
        \A src \in Sources :
            LET rows == doc_rows[src]
            IN /\ Len(rows) = Len(wrap(WrapInput(doc_text), wrap_width))
               /\ \A i \in 1..Len(rows) : rows[i].chunk_id = i - 1
               /\ Normalized(doc_text) = <<>> <=> rows = <<>>

\* C13 witness: an article of three chunks.
C13_Witness ==
    /\ doc_pc = "done"
    /\ \A src \in Sources :
          /\ Len(doc_rows[src]) = 3
          /\ doc_rows[src][3].chunk_id = 2

\* C16: every text_chunk is at most wrap_width characters long and holds no
\* newline and no tab, and so does every text_chunk cell the writer emits.
C16_ChunkWithinWidth ==
    doc_pc = "done" =>
        \A src \in Sources :
            \A i \in 1..Len(doc_rows[src]) :
                LET chunk == doc_rows[src][i].text_chunk
                    cell == doc_cells[src][i]
                IN /\ TLen(chunk) <= wrap_width
                   /\ ~HasChar(chunk, NL) /\ ~HasChar(chunk, TAB)
                   /\ TLen(cell) <= wrap_width
                   /\ ~HasChar(cell, NL) /\ ~HasChar(cell, TAB)

\* C16 witness: a text with a tab, a newline and a word longer than the width
\* has been chunked.
C16_Witness ==
    /\ doc_pc = "done"
    /\ HasChar(doc_text, TAB) /\ HasChar(doc_text, NL)
    /\ \E w \in WordsOf(doc_text) : TLen(w) > wrap_width
    /\ Len(doc_rows["medrxiv"]) >= 2

JoinedChunks(rows) == TJoin([i \in 1..Len(rows) |-> rows[i].text_chunk], Word(SP, 1))

\* C17 as stated: the chunks of an article joined by single spaces are the
\* whitespace-normalized source text, whatever the text and the width.
C17_JoinRestoresText ==
    doc_pc = "done" =>
        \A src \in Sources : JoinedChunks(doc_rows[src]) = Normalized(doc_text)

\* C17: the chunks of an article, in order, hold the non-whitespace characters
\* of the source text, all of them and in their order; joined by single spaces
\* and with whitespace runs collapsed they are the whitespace-normalized source
\* text when no word is longer than the wrap width (the texts here have no
\* hyphen, so that no other word is cut).
C17_JoinRestoresUnsplitText ==
    doc_pc = "done" =>
        \A src \in Sources :
            /\ TNoSpace(JoinedChunks(doc_rows[src])) = TNoSpace(doc_text)
            /\ (\A w \in WordsOf(doc_text) : TLen(w) <= wrap_width)
                  => TCollapse(JoinedChunks(doc_rows[src])) = Normalized(doc_text)

\* C17 witness: a text of two words that fit the width and are put into two
\* chunks, and whose join is the normalized text.
C17_Witness ==
    /\ doc_pc = "done"
    /\ Cardinality(WordsOf(doc_text)) = 2
    /\ \A w \in WordsOf(doc_text) : TLen(w) <= wrap_width
    /\ Len(doc_rows["arxiv"]) = 2
    /\ HasChar(doc_text, NL)
    /\ JoinedChunks(doc_rows["arxiv"]) = Normalized(doc_text)

\* ------------------------------------------- claims on the medRxiv item loop
\* C12 as stated, for the records of two articles: paper_id with source
\* identifies one article, so two records of the list collected in one fetch
\* that come from articles of different title never share
\* (paper_id, source, chunk_id).
C12_ChunkIdUniquePerPaper ==
    page_pc = "done" =>
        \A i, j \in 1..Len(page_collected) :
            (i < j /\ page_collected[i].title # page_collected[j].title) =>
                ~ /\ page_collected[i].paper_id = page_collected[j].paper_id
                  /\ page_collected[i].source = page_collected[j].source
                  /\ page_collected[i].chunk_id = page_collected[j].chunk_id

\* a valid ISO-8601 calendar date: YYYY-MM-DD and nothing else
IsIsoDate(text) == ParsesAsDate(text) /\ text.tail = ""

\* C14 as stated: `published` of every record is the empty string or a valid
\* ISO-8601 calendar date.
C14_PublishedIsDateOrEmpty ==
    page_pc = "done" =>
        \A i \in 1..Len(page_collected) :
            page_collected[i].published = EmptyDate \/ IsIsoDate(page_collected[i].published)

\* term occurs in text as a case-insensitive substring
OccursIgnoringCase(term, text) == TContains(TLower(term), TLower(text))

\* C15 as stated: an item with an abstract contributes records if and only if
\* the term list is empty or some term occurs, case-insensitively, in
\* title + " " + abstract.
C15_KeptIffTermOccurs ==
    page_pc = "done" =>
        \A i \in 1..Len(page_items) :
            LET it == page_items[i]
                text == TCat(TCat(TStrip(it.title), Word(SP, 1)), TStrip(it.abstract))
            IN TStrip(it.abstract) # <<>> =>
                  ( page_rows[i] # <<>>
                    <=> ( terms = <<>>
                          \/ \E k \in 1..Len(terms) : OccursIgnoringCase(terms[k], text) ) )

\* ------------------------------------ claims on the paging of a medRxiv fetch
\* C18 as stated, for the returned list: it never holds more than max_results
\* records, for every max_results >= 0.
C18_NeverMoreThanCap ==
    /\ Len(collected) <= max_results
    /\ med_pc = "returned" => Len(returned) <= max_results

\* the number of items in the first k pages received
RECURSIVE ItemsReceived(_)
ItemsReceived(k) == IF k = 0 THEN 0 ELSE ItemsReceived(k - 1) + Len(pages[k])

\* C19: the first page is requested at cursor 0 and every later one at the
\* number of items of all pages received before it, filtered or cut items
\* included; the cursors of successive requests strictly increase, so no
\* offset is requested twice.
C19_CursorCountsItemsReceived ==
    /\ \A k \in 1..Len(requests) :
          /\ Len(pages) >= k - 1
          /\ requests[k] = ItemsReceived(k - 1)
    /\ \A k, l \in 1..Len(requests) : k < l => requests[k] < requests[l]
    /\ med_pc \in {"loop", "returned"} => cursor = ItemsReceived(Len(pages))

\* C19 witness: three requests at 0, 2 and 4 although fewer than two records
\* were collected from the first two pages.
C19_Witness ==
    /\ requests = <<0, 2, 4>>
    /\ Len(pages) >= 2
    /\ Len(collected) < 2
    /\ max_results >= 2

\* ------------------------------------------- claims on the enrichment chain
\* the detail endpoint gives the item an abstract
DetailGivesAbstract(it) ==
    it.source # "" /\ it.id # "" /\ it.detail.ok /\ TStrip(it.detail.abstractText) # <<>>

\* the full-text endpoint gives the item a text
FulltextGivesText(it) ==
    /\ it.source = "PMC" /\ it.id # "" /\ it.fulltext.ok
    /\ \E i \in 1..Len(it.fulltext.paras) : TStrip(it.fulltext.paras[i]) # <<>>

\* the chain in order: the full-text request, if any, comes last, and only when
\* the abstract was still empty after the detail lookup; an item left without
\* an abstract produces no record
ChainInOrder ==
    /\ item_calls \in {<<>>, <<"detail">>, <<"fulltext">>, <<"detail", "fulltext">>}
    /\ (\E i \in 1..Len(item_calls) : item_calls[i] = "fulltext") =>
          (TStrip(item.abstractText) = <<>> /\ ~DetailGivesAbstract(item))
    /\ (/\ TStrip(item.abstractText) = <<>>
        /\ ~DetailGivesAbstract(item)
        /\ ~FulltextGivesText(item)) => item_rows = <<>>

\* C20 as stated: no enrichment request for an item whose abstractText is
\* nonempty, and the chain in order.
C20_ChainOnlyAsFarAsNeeded ==
    item_pc = "done" =>
        /\ item.abstractText # <<>> => item_calls = <<>>
        /\ ChainInOrder

\* C20: no enrichment request for an item whose abstractText is nonempty once
\* trimmed; a detail request for an item whose trimmed abstractText is empty
\* and that has source and id; and the chain in order.
C20_ChainOnlyAsFarAsNeededTrimmed ==
    item_pc = "done" =>
        /\ TStrip(item.abstractText) # <<>> => item_calls = <<>>
        /\ (TStrip(item.abstractText) = <<>> /\ item.source # "" /\ item.id # "") =>
              (item_calls # <<>> /\ item_calls[1] = "detail")
        /\ ChainInOrder

\* C20 witness: an item without abstract for which the detail record has none
\* either and the full text supplies the records, after both requests in order.
C20_Witness ==
    /\ item_pc = "done"
    /\ item.abstractText = <<>>
    /\ item_calls = <<"detail", "fulltext">>
    /\ item_rows # <<>>

\* -------------------------- claims on a failed Europe PMC search request
\* the records of all items of the pages received, in order
EpmcRowsOfPages ==
    Flatten([p \in 1..Len(epmc_pages) |->
                Flatten([i \in 1..Len(epmc_pages[p].results) |->
                            epmc_process_item(epmc_pages[p].results[i], wrap_width)])])

\* C21: a fetch that met a failed search request has returned to its caller,
\* the failed request is the last one it issued (one more request than pages
\* received), and what it returned is exactly the records of the pages
\* processed before the failure.
C21_FailedPageKeepsPartial ==
    epmc_failed =>
        /\ epmc_pc = "returned"
        /\ Len(epmc_requests) = Len(epmc_pages) + 1
        /\ epmc_returned = EpmcRowsOfPages
        /\ Len(epmc_returned) <= max_results

\* C21 witness: the third search request failed after two pages that gave
\* records, and these records were returned.
C21_Witness ==
    /\ epmc_failed
    /\ epmc_pc = "returned"
    /\ Len(epmc_requests) = 3
    /\ Len(epmc_pages) = 2
    /\ Len(epmc_returned) >= 2
    /\ epmc_returned = EpmcRowsOfPages

\* ------------------------------------------- claims on the scope of retries
\* C22: whatever the earlier page requests of the fetch used, the page request
\* in flight counts its attempts from zero: its i-th sleep lasts
\* backoff_seconds * i (the first backoff_seconds * 1), it has made one call
\* more than it has slept or the same number, and it gives up on retryable
\* answers only after the full budget of retries + 1 calls and retries sleeps.
C22_RetryStatePerRequest ==
    med_pc = "request" =>
        /\ \A i \in 1..Len(sleeps) : sleeps[i] = backoff_seconds * i
        /\ Len(sleeps) <= retries
        /\ http_calls \in {Len(sleeps), Len(sleeps) + 1}
        /\ req_result = "pending" => (attempt = Len(sleeps) /\ http_calls = Len(sleeps))
        /\ (/\ req_result = "none"
            /\ \A i \in 1..Len(responses) : responses[i].status \in ClaimRetryable)
              => (http_calls = retries + 1 /\ Len(sleeps) = retries)

\* C22 witness: a later page request that spent its whole budget, the first
\* sleep lasting backoff_seconds, after earlier page requests with at least as
\* many failed attempts.
C22_Witness ==
    /\ med_pc = "request"
    /\ Len(requests) >= 2
    /\ retries >= 2
    /\ attempts_used >= retries
    /\ req_result = "none"
    /\ Len(sleeps) = retries
    /\ sleeps[1] = backoff_seconds
    /\ http_calls = retries + 1

\* ------------------------------------------ claims on the writer in the loop
\* every enabled source was queried for topic t
EnabledQueried(t) ==
    /\ use_arxiv => <<t, "arxiv">> \in queried
    /\ use_medrxiv => <<t, "medrxiv">> \in queried
    /\ use_epmc => <<t, "epmc">> \in queried

\* the sources were queried in the order arXiv, medRxiv, Europe PMC
QueriedInOrder(t) ==
    /\ <<t, "medrxiv">> \in queried => (use_arxiv => <<t, "arxiv">> \in queried)
    /\ <<t, "epmc">> \in queried =>
          /\ use_arxiv => <<t, "arxiv">> \in queried
          /\ use_medrxiv => <<t, "medrxiv">> \in queried

\* a step in which a source fetch raises and a handler of the loop takes over
FetchRaises == run_pc \in {"arxiv", "medrxiv", "epmc"} /\ run_pc' = "topic"

\* C23: for each topic the writer is invoked at most once, in the step that
\* follows the queries of all enabled sources, made in the order arXiv,
\* medRxiv, Europe PMC, none of which raised; a step in which a fetch raises
\* ends the topic with no call of the writer and nothing written, and no topic
\* is taken up again.
C23_SaveOnlyAfterAllSources ==
    /\ [](\A t \in Topics :
            /\ save_count[t] <= 1
            /\ QueriedInOrder(t)
            /\ save_count[t] = 1 => (EnabledQueried(t) /\ t \notin empty_page))
    /\ [][ /\ \A t \in Topics :
                save_count'[t] # save_count[t] =>
                    /\ run_pc = "save" /\ topic = t
                    /\ save_count[t] = 0 /\ save_count'[t] = 1
                    /\ EnabledQueried(t)
                    /\ t \notin (failed \cup empty_page)
           /\ FetchRaises =>
                /\ save_count' = save_count
                /\ save_count[topic] = 0
                /\ written' = <<>>
                /\ topic \in (failed' \cup empty_page')
                /\ topic' = topic + 1
           /\ topic' >= topic ]_vars

\* C23 witness: with all sources enabled the first topic was written once, and
\* the second ended when the medRxiv fetch raised after arXiv had returned
\* records: Europe PMC was not queried and nothing was written for it.
C23_Witness ==
    /\ use_arxiv /\ use_medrxiv /\ use_epmc
    /\ save_count[1] = 1 /\ 1 \notin failed
    /\ EnabledQueried(1)
    /\ topic = 3 /\ run_pc = "topic"
    /\ 2 \in failed
    /\ arxiv_data # <<>>
    /\ <<2, "medrxiv">> \in queried /\ <<2, "epmc">> \notin queried
    /\ save_count[2] = 0
    /\ written = <<>>

====
